---- MODULE Spec2Model ----
(***************************************************************************)
(* A model of krypto's AES engine (include/krypto/aes.h and the field      *)
(* arithmetic of include/krypto/internal/util.h): GF(2^8) tables, the      *)
(* round transformations, key expansion, the two padding schemes, the ECB  *)
(* and CBC modes and the aes<size, mode, padding> facade.                  *)
(*                                                                         *)
(* Bytes are integers in 0..255.  A C++ array or vector is a sequence;     *)
(* the C++ index i is the sequence index i + 1.  Lookup tables keep the    *)
(* C++ indices (functions on 0..255 or 0..509).                            *)
(***************************************************************************)
EXTENDS Integers, Sequences, FiniteSets, TLC

(***************************************************************************)
(* Bit operations on unsigned integers.                                    *)
(***************************************************************************)
\* the table with the entries of f, a function on 0..n
Tab(f) == f @@ f

RECURSIVE BitXorRec(_, _)
BitXorRec(a, b) ==
    IF a = 0 THEN b
    ELSE IF b = 0 THEN a
    ELSE ((a + b) % 2) + 2 * BitXorRec(a \div 2, b \div 2)

\* a ^ b on bytes, tabulated once
XorTable == Tab([a \in 0..255 |-> Tab([b \in 0..255 |-> BitXorRec(a, b)])])

BitXor(a, b) ==
    IF a \in 0..255 /\ b \in 0..255 THEN XorTable[a][b] ELSE BitXorRec(a, b)

RECURSIVE BitOr(_, _)
BitOr(a, b) ==
    IF a = 0 THEN b
    ELSE IF b = 0 THEN a
    ELSE (IF a % 2 = 1 \/ b % 2 = 1 THEN 1 ELSE 0) + 2 * BitOr(a \div 2, b \div 2)

RECURSIVE Pow2(_)
Pow2(n) == IF n = 0 THEN 1 ELSE 2 * Pow2(n - 1)

\* the array with the elements of f, a function on 1..n
Arr(f) == SubSeq(f, 1, Len(f))

\* conversion to uint8_t
U8(v) == v % 256

Byte == 0..255

(***************************************************************************)
(* internal/util.h: GF(2^8) arithmetic and the tables derived from it.     *)
(***************************************************************************)
\* uint8_t add(uint8_t x, uint8_t y)
add(x, y) == BitXor(x, y)

\* the while loop of mult, on (x, y, res)
RECURSIVE mult_loop(_, _, _)
mult_loop(x, y, res) ==
    IF x = 0 \/ y = 0 THEN res
    ELSE LET res1  == IF y % 2 = 1 THEN BitXor(res, x) ELSE res
             carry == x \div 128
             y1    == y \div 2
             x1    == U8(x * 2)
             x2    == IF carry # 0 THEN BitXor(x1, 27) ELSE x1
         IN  mult_loop(x2, y1, res1)

\* Russian peasant multiplication
mult(x, y) == mult_loop(U8(x), U8(y), 0)

\* Loops of several hundred iterations are run in chunks of 16 iterations,
\* so that the evaluation depth stays small; the order and the effect of
\* the iterations are those of the source's loop.
Min(a, b) == IF a <= b THEN a ELSE b

\* one iteration of the first loop of compute_log_tables, on [log, anti_log, x]
log_step1(t, i) ==
    [log      |-> [t.log EXCEPT ![t.x] = i],
     anti_log |-> [t.anti_log EXCEPT ![i] = U8(t.x)],
     x        |-> mult(t.x, 3)]

\* one iteration of the second loop: anti_log only
log_step2(t, i) ==
    [log      |-> t.log,
     anti_log |-> [t.anti_log EXCEPT ![i] = U8(t.x)],
     x        |-> mult(t.x, 3)]

RECURSIVE log_steps(_, _, _)
log_steps(t, i, end) ==
    IF i >= end \/ t.x \notin Byte THEN t
    ELSE log_steps(IF i < 255 THEN log_step1(t, i) ELSE log_step2(t, i), i + 1, end)

RECURSIVE log_loop(_, _)
log_loop(t, i) ==
    IF i >= 510 \/ t.x \notin Byte THEN t
    ELSE log_loop(log_steps(t, i, Min(i + 16, 510)), i + 16)

\* t.log[0] = 0; int x = 1; for i in 0..254 ...; for i in 255..509 ...
compute_log_tables ==
    LET t == log_loop([log      |-> [n \in 0..255 |-> 0],
                       anti_log |-> [n \in 0..509 |-> 0],
                       x        |-> 1], 0)
    IN  [log |-> Tab(t.log), anti_log |-> Tab(t.anti_log)]

LOG_TABLES == compute_log_tables

\* fast_mult without the test for a zero operand
fast_mult_no_zero_test(a, b) ==
    LOG_TABLES.anti_log[LOG_TABLES.log[a] + LOG_TABLES.log[b]]

fast_mult(a, b) ==
    IF a = 0 \/ b = 0 THEN 0
    ELSE LOG_TABLES.anti_log[LOG_TABLES.log[a] + LOG_TABLES.log[b]]

fast_inv(a) ==
    IF a = 0 THEN 0
    ELSE LOG_TABLES.anti_log[255 - LOG_TABLES.log[a]]

\* value << count | value >> (8 - count), returned as uint8_t
rotl8(value, count) ==
    U8(BitOr(value * Pow2(count), value \div Pow2(8 - count)))

\* tables.sbox[i] for i >= 1
sbox_entry(i) ==
    LET inv == fast_inv(U8(i))
    IN  BitXor(BitXor(BitXor(BitXor(BitXor(inv, rotl8(inv, 1)), rotl8(inv, 2)),
                             rotl8(inv, 3)), rotl8(inv, 4)), 99)

\* tables.inv_sbox[i] with the second rotation by 2 instead of 3
inv_sbox_entry_rot2(i) ==
    fast_inv(U8(BitXor(BitXor(BitXor(rotl8(i, 1), rotl8(i, 2)), rotl8(i, 6)), 5)))

\* tables.inv_sbox[i]
inv_sbox_entry(i) ==
    fast_inv(U8(BitXor(BitXor(BitXor(rotl8(i, 1), rotl8(i, 3)), rotl8(i, 6)), 5)))

\* the SBox loop of compute_sub_tables: i in from..end-1
RECURSIVE sbox_steps(_, _, _)
sbox_steps(t, i, end) ==
    IF i >= end \/ DOMAIN t = {} THEN t
    ELSE sbox_steps([t EXCEPT ![i] = sbox_entry(i)], i + 1, end)

RECURSIVE sbox_loop(_, _)
sbox_loop(t, i) ==
    IF i >= 256 \/ DOMAIN t = {} THEN t
    ELSE sbox_loop(sbox_steps(t, i, Min(i + 16, 256)), i + 16)

\* the Inv Sbox loop of compute_sub_tables
RECURSIVE inv_sbox_steps(_, _, _)
inv_sbox_steps(t, i, end) ==
    IF i >= end \/ DOMAIN t = {} THEN t
    ELSE inv_sbox_steps([t EXCEPT ![i] = inv_sbox_entry(i)], i + 1, end)

RECURSIVE inv_sbox_loop(_, _)
inv_sbox_loop(t, i) ==
    IF i >= 256 \/ DOMAIN t = {} THEN t
    ELSE inv_sbox_loop(inv_sbox_steps(t, i, Min(i + 16, 256)), i + 16)

compute_sub_tables ==
    [sbox     |-> Tab([sbox_loop([n \in 0..255 |-> 0], 1) EXCEPT ![0] = 99]),
     inv_sbox |-> Tab(inv_sbox_loop([n \in 0..255 |-> 0], 0))]

\* the loop of compute_rcon on (values, val, i)
RECURSIVE rcon_loop(_, _, _)
rcon_loop(values, val, i) ==
    IF i >= 14 THEN values
    ELSE LET v == fast_mult(val, 2)
         IN  rcon_loop([values EXCEPT ![i] = v], v, i + 1)

compute_rcon == Tab(rcon_loop([[n \in 0..13 |-> 0] EXCEPT ![0] = 1], 1, 1))

\* krypto::math::xor_block: left[i] ^= right[i] over left's length
xor_block(left, right) == Arr([i \in 1..Len(left) |-> BitXor(left[i], right[i])])

(***************************************************************************)
(* aes.h: class aes<size, mode, padding>.                                  *)
(***************************************************************************)
\* static_assert(size == 128 || size == 194 || size == 256)
size_accepted(size) == size = 128 \/ size = 194 \/ size = 256

NB == 4
NK(size) == U8(size \div 32)
NR(size) == U8(NK(size) + 6)

\* std::array<unsigned char, NB * (NR + 1) * 4> expanded_key
expanded_key_size(size) == NB * (NR(size) + 1) * 4

sub_tables == compute_sub_tables
rcon == compute_rcon

sub_word(data) == Arr([i \in 1..4 |-> sub_tables.sbox[data[i]]])

\* rot_word rotating the word the other way
rot_word_right(data) == <<data[4], data[1], data[2], data[3]>>

rot_word(data) == <<data[2], data[3], data[4], data[1]>>

xor_word(data, right) == Arr([i \in 1..4 |-> BitXor(data[i], right[i])])

\* the while loop of expand_key on (expanded_key, i)
RECURSIVE expand_key_loop(_, _, _)
expand_key_loop(size, ek, i) ==
    IF i >= NB * (NR(size) + 1) \/ Len(ek) = 0 THEN ek
    ELSE LET nk     == NK(size)
             window == SubSeq(ek, (i - nk) * 4 + 1, (i - nk) * 4 + 4)
             temp0  == SubSeq(ek, (i - 1) * 4 + 1, (i - 1) * 4 + 4)
             temp1  == IF i % nk = 0
                       THEN xor_word(sub_word(rot_word(temp0)),
                                     <<rcon[(i \div nk) - 1], 0, 0, 0>>)
                       ELSE IF nk > 6 /\ i % nk = 4
                       THEN sub_word(temp0)
                       ELSE temp0
             temp2  == xor_word(temp1, window)
         IN  expand_key_loop(size,
                             Arr([k \in 1..Len(ek) |->
                                 IF k > i * 4 /\ k <= i * 4 + 4 THEN temp2[k - i * 4]
                                 ELSE ek[k]]),
                             i + 1)

\* expand_key without the copy of the key to the front of the array
expand_key_no_copy(size, key) ==
    expand_key_loop(size, Arr([k \in 1..expanded_key_size(size) |-> 0]), NK(size))

\* expand_key: the key is copied to the front of the zero-initialised array
expand_key(size, key) ==
    expand_key_loop(size,
                    Arr([k \in 1..expanded_key_size(size) |->
                        IF k <= Len(key) THEN key[k] ELSE 0]),
                    NK(size))

\* key_pos is a uint8_t parameter
add_round_key(ek, data, key_pos) ==
    Arr([i \in 1..16 |-> BitXor(data[i], ek[U8(key_pos) + i])])

sub_bytes(data) == Arr([i \in 1..16 |-> sub_tables.sbox[data[i]]])

inv_sub_bytes(data) == Arr([i \in 1..16 |-> sub_tables.inv_sbox[data[i]]])

\* buf[k] = data[shift_rows_src[k]], C++ indices
shift_rows_src == <<0, 5, 10, 15, 4, 9, 14, 3, 8, 13, 2, 7, 12, 1, 6, 11>>

shift_rows(data) == Arr([i \in 1..16 |-> data[shift_rows_src[i] + 1]])

inv_shift_rows_src == <<0, 13, 10, 7, 4, 1, 14, 11, 8, 5, 2, 15, 12, 9, 6, 3>>

inv_shift_rows(data) == Arr([i \in 1..16 |-> data[inv_shift_rows_src[i] + 1]])

\* coefficient 1 is the byte itself, any other goes through fast_mult
coef_mult(c, v) == IF c = 1 THEN v ELSE fast_mult(c, v)

\* row r of a column transformed with the coefficient rows in m
mix_entry(m, data, col, r) ==
    BitXor(BitXor(BitXor(coef_mult(m[r][1], data[4 * col + 1]),
                         coef_mult(m[r][2], data[4 * col + 2])),
                  coef_mult(m[r][3], data[4 * col + 3])),
           coef_mult(m[r][4], data[4 * col + 4]))

mix_columns_rows == <<<<2, 3, 1, 1>>, <<1, 2, 3, 1>>, <<1, 1, 2, 3>>, <<3, 1, 1, 2>>>>

\* mix_columns with the coefficients 2 and 3 exchanged
mix_columns_exchanged(data) ==
    Arr([i \in 1..16 |->
        mix_entry(<<<<3, 2, 1, 1>>, <<1, 3, 2, 1>>, <<1, 1, 3, 2>>, <<2, 1, 1, 3>>>>,
                  data, (i - 1) \div 4, ((i - 1) % 4) + 1)])

mix_columns(data) ==
    Arr([i \in 1..16 |->
        mix_entry(mix_columns_rows, data, (i - 1) \div 4, ((i - 1) % 4) + 1)])

inv_mix_columns_rows ==
    <<<<14, 11, 13, 9>>, <<9, 14, 11, 13>>, <<13, 9, 14, 11>>, <<11, 13, 9, 14>>>>

\* inv_mix_columns with the coefficients 13 and 9 exchanged
inv_mix_columns_swapped(data) ==
    Arr([i \in 1..16 |->
        mix_entry(<<<<14, 11, 9, 13>>, <<13, 14, 11, 9>>, <<9, 13, 14, 11>>, <<11, 9, 13, 14>>>>,
                  data, (i - 1) \div 4, ((i - 1) % 4) + 1)])

inv_mix_columns(data) ==
    Arr([i \in 1..16 |->
        mix_entry(inv_mix_columns_rows, data, (i - 1) \div 4, ((i - 1) % 4) + 1)])

\* the for loop of do_encrypt: rounds i .. NR - 1
RECURSIVE do_encrypt_loop(_, _, _, _)
do_encrypt_loop(size, ek, data, i) ==
    IF i >= NR(size) \/ Len(data) = 0 THEN data
    ELSE do_encrypt_loop(size, ek,
             add_round_key(ek, mix_columns(shift_rows(sub_bytes(data))), i * (NB * 4)),
             i + 1)

do_encrypt(size, ek, data) ==
    LET d0 == add_round_key(ek, data, 0)
        d1 == do_encrypt_loop(size, ek, d0, 1)
    IN  add_round_key(ek, shift_rows(sub_bytes(d1)), NR(size) * (NB * 4))

\* the for loop of do_decrypt: rounds i down to 1
RECURSIVE do_decrypt_loop(_, _, _, _)
do_decrypt_loop(size, ek, data, i) ==
    IF i <= 0 \/ Len(data) = 0 THEN data
    ELSE do_decrypt_loop(size, ek,
             inv_mix_columns(add_round_key(ek, inv_sub_bytes(inv_shift_rows(data)),
                                           i * (NB * 4))),
             i - 1)

do_decrypt(size, ek, data) ==
    LET d0 == add_round_key(ek, data, NR(size) * (NB * 4))
        d1 == do_decrypt_loop(size, ek, d0, NR(size) - 1)
    IN  add_round_key(ek, inv_sub_bytes(inv_shift_rows(d1)), 0)

(***************************************************************************)
(* aes.h: padding schemes.  A buffer position is the C++ index of the      *)
(* iterator in its container.                                              *)
(***************************************************************************)
\* pad::detail::compute_zero_padding
compute_zero_padding == Arr([i \in 1..32 |-> 0])

\* pad::detail::compute_x_padding: std::fill converts x to unsigned char
compute_x_padding(x) == Arr([i \in 1..32 |-> U8(x)])

\* std::copy(src.begin(), src.begin() + n, buf.begin() + pos)
copy_to(buf, pos, src, n) ==
    Arr([k \in 1..Len(buf) |-> IF k > pos /\ k <= pos + n THEN src[k - pos] ELSE buf[k]])

\* ansix923::apply with the byte N written first and the zeros after it
ansix923_apply_n_first(buf, pos, pad_size) ==
    LET b1 == copy_to(buf, pos + 1, compute_zero_padding, pad_size - 1)
    IN  [b1 EXCEPT ![pos + 1] = U8(pad_size)]

ansix923_apply(buf, pos, pad_size) ==
    LET b1 == copy_to(buf, pos, compute_zero_padding, pad_size - 1)
    IN  [b1 EXCEPT ![pos + (pad_size - 1) + 1] = U8(pad_size)]

pkcs7_apply(buf, pos, pad_size) ==
    copy_to(buf, pos, compute_x_padding(pad_size), pad_size)

pad_apply(padding, buf, pos, pad_size) ==
    IF padding = "ansix923" THEN ansix923_apply(buf, pos, pad_size)
    ELSE pkcs7_apply(buf, pos, pad_size)

\* for (; it != to; it--) { if (*it != expect) return 0; }
\* "match": it reached to; "mismatch": return 0; "outside": *it is read
\* outside the container
RECURSIVE detect_loop(_, _, _, _)
detect_loop(buf, it, to, expect) ==
    IF it = to THEN "match"
    ELSE IF it < 0 \/ it >= Len(buf) THEN "outside"
    ELSE IF buf[it + 1] # expect THEN "mismatch"
    ELSE detect_loop(buf, it - 1, to, expect)

\* pad_size = *it; to = std::prev(it, pad_size - 1); it--; the loop
detect_walk(buf, pos, expect) ==
    LET pad_size == buf[pos + 1]
        to       == pos - (pad_size - 1)
    IN  [pad_size |-> pad_size, to |-> to,
         walk     |-> detect_loop(buf, pos - 1, to, expect)]

ansix923_detect(buf, pos) == detect_walk(buf, pos, 0)

pkcs7_detect(buf, pos) == detect_walk(buf, pos, buf[pos + 1])

pad_detect(padding, buf, pos) ==
    IF padding = "ansix923" THEN ansix923_detect(buf, pos) ELSE pkcs7_detect(buf, pos)

\* What a call of detect can do.  A walk that stays in the container returns
\* pad_size or 0.  A walk that leaves the container reads bytes the program
\* does not own: the read can fault, can find a mismatch (return 0), and can
\* only reach `to` (return pad_size) when `to` lies below the container.
detect_outcomes(d) ==
    IF d.walk = "match" THEN {[ret |-> d.pad_size, oob |-> FALSE, crash |-> FALSE]}
    ELSE IF d.walk = "mismatch" THEN {[ret |-> 0, oob |-> FALSE, crash |-> FALSE]}
    ELSE {[ret |-> 0, oob |-> TRUE, crash |-> TRUE],
          [ret |-> 0, oob |-> TRUE, crash |-> FALSE]}
         \cup (IF d.to < -1
               THEN {[ret |-> d.pad_size, oob |-> TRUE, crash |-> FALSE]}
               ELSE {})

(***************************************************************************)
(* aes.h: modes of operation.                                              *)
(***************************************************************************)
\* assert(data.size() % 16 == 0 && data.size() >= 32)
mode_assert(data) == Len(data) % 16 = 0 /\ Len(data) >= 32

\* data_view.subspan(i * 16).first<16>()
block_at(data, i) == SubSeq(data, i * 16 + 1, i * 16 + 16)

\* data with its block i replaced by b
with_block(data, i, b) ==
    SubSeq(data, 1, i * 16) \o b \o SubSeq(data, i * 16 + 17, Len(data))

RECURSIVE ecb_encrypt_loop(_, _, _, _)
ecb_encrypt_loop(size, ek, data, i) ==
    IF i >= Len(data) \div 16 THEN data
    ELSE ecb_encrypt_loop(size, ek,
             with_block(data, i, do_encrypt(size, ek, block_at(data, i))), i + 1)

ecb_encrypt(size, ek, data) == ecb_encrypt_loop(size, ek, data, 0)

RECURSIVE ecb_decrypt_loop(_, _, _, _)
ecb_decrypt_loop(size, ek, data, i) ==
    IF i >= Len(data) \div 16 THEN data
    ELSE ecb_decrypt_loop(size, ek,
             with_block(data, i, do_decrypt(size, ek, block_at(data, i))), i + 1)

ecb_decrypt(size, ek, data) == ecb_decrypt_loop(size, ek, data, 0)

\* cbc::encrypt's loop with iv_view never moved off the drawn IV
RECURSIVE cbc_encrypt_loop_fixed_iv(_, _, _, _, _)
cbc_encrypt_loop_fixed_iv(size, ek, data, iv_view, i) ==
    IF i >= Len(data) \div 16 \/ Len(iv_view) = 0 THEN data
    ELSE LET block == do_encrypt(size, ek, xor_block(block_at(data, i), iv_view))
         IN  cbc_encrypt_loop_fixed_iv(size, ek, with_block(data, i, block), iv_view, i + 1)

\* the loop of cbc::encrypt; iv_view is the drawn IV, then the block just
\* encrypted
RECURSIVE cbc_encrypt_loop(_, _, _, _, _)
cbc_encrypt_loop(size, ek, data, iv_view, i) ==
    IF i >= Len(data) \div 16 \/ Len(iv_view) = 0 THEN data
    ELSE LET block == do_encrypt(size, ek, xor_block(block_at(data, i), iv_view))
         IN  cbc_encrypt_loop(size, ek, with_block(data, i, block), block, i + 1)

\* cbc::encrypt with the IV put in front of the ciphertext
cbc_encrypt_iv_first(size, ek, data, iv) ==
    iv \o cbc_encrypt_loop(size, ek, data, iv, 0)

\* the IV array is appended after the loop
cbc_encrypt(size, ek, data, iv) ==
    cbc_encrypt_loop(size, ek, data, iv, 0) \o iv

\* the loop of cbc::decrypt over the blocks before the trailer
RECURSIVE cbc_decrypt_loop(_, _, _, _, _)
cbc_decrypt_loop(size, ek, data, prev_iv, i) ==
    IF i >= (Len(data) \div 16) - 1 \/ Len(prev_iv) = 0 THEN data
    ELSE LET iv    == block_at(data, i)
             block == xor_block(do_decrypt(size, ek, iv), prev_iv)
         IN  cbc_decrypt_loop(size, ek, with_block(data, i, block), iv, i + 1)

cbc_decrypt(size, ek, data) ==
    LET prev_iv == SubSeq(data, Len(data) - 16 + 1, Len(data))
        d1      == cbc_decrypt_loop(size, ek, data, prev_iv, 0)
    IN  SubSeq(d1, 1, Len(d1) - 16)

mode_encrypt(mode, size, ek, data, iv) ==
    IF mode = "cbc" THEN cbc_encrypt(size, ek, data, iv) ELSE ecb_encrypt(size, ek, data)

mode_decrypt(mode, size, ek, data) ==
    IF mode = "cbc" THEN cbc_decrypt(size, ek, data) ELSE ecb_decrypt(size, ek, data)

(***************************************************************************)
(* aes.h: the facade, aes::encrypt and aes::decrypt.                       *)
(***************************************************************************)
\* the pad size without the extra block: 16 - (size % 16)
encrypt_pad_size_one_block(len) == U8(16 - (len % 16))

\* const uint8_t pad_size = (size % 16 == 0 ? 0 : 16 - (size % 16)) + 16
encrypt_pad_size(len) == U8((IF len % 16 = 0 THEN 0 ELSE 16 - (len % 16)) + 16)

\* resize, copy, padding::apply: the buffer handed to mode::encrypt
encrypt_padded(padding, data) ==
    LET pad_size == encrypt_pad_size(Len(data))
        buf      == data \o Arr([i \in 1..pad_size |-> 0])
    IN  IF pad_size > 0 THEN pad_apply(padding, buf, Len(data), pad_size) ELSE buf

\* decrypt's resize dropping one byte more than detect reported
decrypt_resize_one_more(buf, s) == SubSeq(buf, 1, Len(buf) - s - 1)

\* plain_text.resize(plain_text.size() - s), s <= size
decrypt_resize(buf, s) == SubSeq(buf, 1, Len(buf) - s)

(***************************************************************************)
(* Inputs of the calls.                                                    *)
(***************************************************************************)
\* longest plaintext of the ramp family
MaxLen == 17

\* the key-size template arguments tried
RequestedSizes == {64, 128, 192, 194, 256}

Modes == {"ecb", "cbc"}

Paddings == {"ansix923", "pkcs7"}

\* 00 11 22 .. : the FIPS-197 plaintext when len = 16
Ramp(len) == Arr([i \in 1..len |-> U8(17 * (i - 1))])

\* 00 01 02 .. : the FIPS-197 keys
FipsKey(len) == Arr([i \in 1..len |-> U8(i - 1)])

\* FIPS-197 appendix C ciphertexts for the plaintext 00 11 22 .. FF
Fips128 == <<105, 196, 224, 216, 106, 123, 4, 48, 216, 205, 183, 128, 112, 180, 197, 90>>
Fips194 == <<221, 169, 124, 164, 134, 76, 223, 224, 110, 175, 112, 160, 236, 13, 113, 145>>
Fips256 == <<142, 162, 183, 202, 81, 103, 69, 191, 234, 252, 73, 144, 75, 73, 96, 137>>

OtherKey(len) == Arr([i \in 1..len |-> U8(251 - 7 * i)])

\* keys of the length the constructor takes, NK * 4 bytes
Keys(size) ==
    {FipsKey(NK(size) * 4)}
    \cup (IF size = 128 THEN {OtherKey(NK(size) * 4)} ELSE {})

\* "Hello, world!"
Hello == <<72, 101, 108, 108, 111, 44, 32, 119, 111, 114, 108, 100, 33>>

\* a text with its last bytes replaced by tail
WithTail(text, tail) == SubSeq(text, 1, Len(text) - Len(tail)) \o tail

Const(len, v) == Arr([i \in 1..len |-> v])

\* endings that look like padding, valid or not, for two-block texts
Tails ==
    {<<4, 4, 4>>, <<9, 0, 0, 4>>, <<1>>, <<0>>, <<200>>}

Plaintexts ==
    {Ramp(len) : len \in 0..MaxLen}
    \cup {Hello, Const(32, 0), Const(32, 1)}
    \cup {WithTail(Ramp(32), t) : t \in Tails}

\* values create_iv can return
IVs == {Const(16, 0), Arr([i \in 1..16 |-> U8(16 * i + 5)])}

\* lengths of the prefixes of a buffer that are handed to decrypt
PrefixLens(buf) == {n \in 0..Len(buf) : n % 16 \in {0, 1, 15}}

\* the padding tests' container, std::array<unsigned char, 16>
TestBlockLen == 16

\* bytes written over one byte of a test block
TestBytes == {0, 1, 2, 16, 200}

(***************************************************************************)
(* State.                                                                  *)
(***************************************************************************)
VARIABLES
    pc,            \* "idle", "rejected", "built", "encrypted", "decrypted", "padtest"
    size,          \* template argument size of the instance
    mode,          \* template argument mode: "ecb" or "cbc"
    padding,       \* template argument padding: "ansix923" or "pkcs7"
    key,           \* the key given to the constructor
    expanded_key,  \* aes::expanded_key
    plain,         \* argument of the last encrypt
    padded,        \* buffer encrypt handed to mode::encrypt
    iv,            \* IV drawn by the last cbc::encrypt
    cipher,        \* value returned by the last encrypt
    input,         \* argument of the last decrypt
    raw,           \* buffer after mode::decrypt
    strip,         \* value padding::detect returned to decrypt
    result,        \* value returned by the last decrypt
    oob,           \* the last call read outside its buffer
    fault,         \* "none", "assert", "crash", "resize": how the last call ended
    test,          \* the last padding test, or NoTest
    ecb_dir,       \* "encrypt" or "decrypt": the ECB loop being run in parallel
    ecb_in,        \* the buffer as it was handed to that loop
    ecb_data,      \* the buffer the loop's iterations work on, shared by them
    ecb_at,        \* per iteration i: how many calls of its do_encrypt are done
    call           \* the last call of a table or round function, or NoCall

vars == <<pc, size, mode, padding, key, expanded_key, plain, padded, iv, cipher,
          input, raw, strip, result, oob, fault, test,
          ecb_dir, ecb_in, ecb_data, ecb_at, call>>

NoTest == [scheme |-> "none"]

NoCall == [fn |-> "none"]

ecb_vars == <<ecb_dir, ecb_in, ecb_data, ecb_at>>
session_vars == <<pc, size, mode, padding, key, expanded_key, plain, padded, iv, cipher,
                  input, raw, strip, result, oob, fault, test>>

instance_vars == <<size, mode, padding, key, expanded_key>>
encrypt_vars == <<plain, padded, iv, cipher>>
decrypt_vars == <<input, raw, strip, result>>

Init ==
    /\ pc = "idle"
    /\ size = 0 /\ mode = "none" /\ padding = "none"
    /\ key = <<>> /\ expanded_key = <<>>
    /\ plain = <<>> /\ padded = <<>> /\ iv = <<>> /\ cipher = <<>>
    /\ input = <<>> /\ raw = <<>> /\ strip = 0 /\ result = <<>>
    /\ oob = FALSE /\ fault = "none"
    /\ test = NoTest
    /\ ecb_dir = "none" /\ ecb_in = <<>> /\ ecb_data = <<>> /\ ecb_at = <<>>
    /\ call = NoCall

(***************************************************************************)
(* Operations.                                                             *)
(***************************************************************************)
\* aes<sz, m, p> cipher(k): the static_assert, then expand_key
Construct(sz, m, p, k) ==
    /\ pc = "idle"
    /\ size' = sz /\ mode' = m /\ padding' = p /\ key' = k
    /\ IF size_accepted(sz)
       THEN pc' = "built" /\ expanded_key' = expand_key(sz, k)
       ELSE pc' = "rejected" /\ expanded_key' = <<>>
    /\ UNCHANGED <<encrypt_vars, decrypt_vars, oob, fault, test, ecb_vars, call>>

\* cipher.encrypt(data); v is the IV create_iv returns under CBC
Encrypt(data, v) ==
    /\ pc = "built"
    /\ \E buf \in {encrypt_padded(padding, data)} :
           /\ plain' = data
           /\ padded' = buf
           /\ IF mode_assert(buf)
              THEN /\ cipher' = mode_encrypt(mode, size, expanded_key, buf, v)
                   /\ iv' = IF mode = "cbc" THEN v ELSE <<>>
                   /\ fault' = "none"
              ELSE /\ cipher' = <<>>
                   /\ iv' = <<>>
                   /\ fault' = "assert"
    /\ pc' = "encrypted"
    /\ UNCHANGED <<instance_vars, decrypt_vars, oob, test, ecb_vars, call>>

\* cipher.decrypt(data), data the first n bytes of the last ciphertext
Decrypt(n) ==
    /\ pc = "encrypted"
    /\ fault = "none"
    /\ \E data \in {SubSeq(cipher, 1, n)} :
           /\ input' = data
           /\ IF ~mode_assert(data)
              THEN /\ raw' = <<>> /\ strip' = 0 /\ result' = <<>>
                   /\ oob' = FALSE /\ fault' = "assert"
              ELSE \E buf \in {mode_decrypt(mode, size, expanded_key, data)} :
                       /\ raw' = buf
                       /\ \E o \in detect_outcomes(pad_detect(padding, buf, Len(buf) - 1)) :
                            /\ oob' = o.oob
                            /\ strip' = o.ret
                            /\ IF o.crash
                               THEN fault' = "crash" /\ result' = <<>>
                               ELSE IF o.ret > Len(buf)
                               THEN fault' = "resize" /\ result' = <<>>
                               ELSE fault' = "none" /\ result' = decrypt_resize(buf, o.ret)
    /\ pc' = "decrypted"
    /\ UNCHANGED <<instance_vars, encrypt_vars, test, ecb_vars, call>>

\* The padding tests: a block of TestBlockLen bytes filled with `fill`,
\* apply(n) at its end, optionally one byte overwritten (j = -1: none),
\* then detect on the last byte.
PadTest(scheme, fill, n, j, v) ==
    /\ pc = "idle"
    /\ LET data0 == Const(TestBlockLen, fill)
           data1 == pad_apply(scheme, data0, TestBlockLen - n, n)
           data  == IF j >= 0 THEN [data1 EXCEPT ![j + 1] = v] ELSE data1
       IN  \E o \in detect_outcomes(pad_detect(scheme, data, TestBlockLen - 1)) :
             /\ test' = [scheme |-> scheme, fill |-> fill, n |-> n, j |-> j,
                         applied |-> data1, block |-> data,
                         ret |-> o.ret, oob |-> o.oob, crash |-> o.crash]
    /\ pc' = "padtest"
    /\ UNCHANGED <<instance_vars, encrypt_vars, decrypt_vars, oob, fault, ecb_vars, call>>

\* the objects of the session go out of scope
Drop ==
    /\ pc \in {"rejected", "encrypted", "decrypted", "padtest"}
    /\ pc' = "idle"
    /\ size' = 0 /\ mode' = "none" /\ padding' = "none"
    /\ key' = <<>> /\ expanded_key' = <<>>
    /\ plain' = <<>> /\ padded' = <<>> /\ iv' = <<>> /\ cipher' = <<>>
    /\ input' = <<>> /\ raw' = <<>> /\ strip' = 0 /\ result' = <<>>
    /\ oob' = FALSE /\ fault' = "none"
    /\ test' = NoTest
    /\ UNCHANGED <<ecb_vars, call>>

DoConstruct ==
    \E sz \in RequestedSizes, m \in Modes, p \in Paddings :
        \E k \in Keys(sz) : Construct(sz, m, p, k)

DoEncrypt ==
    \E data \in Plaintexts :
        \E v \in (IF mode = "cbc" THEN IVs ELSE {<<>>}) : Encrypt(data, v)

DoDecrypt == \E n \in PrefixLens(cipher) : Decrypt(n)

DoPadTest ==
    \E scheme \in Paddings, fill \in {0, 1}, n \in 1..TestBlockLen :
        \E j \in -1..(TestBlockLen - 1), v \in TestBytes :
            /\ j = -1 => v = 0
            /\ PadTest(scheme, fill, n, j, v)

Next == DoConstruct \/ DoEncrypt \/ DoDecrypt \/ DoPadTest \/ Drop

Spec == Init /\ [][Next]_vars

(***************************************************************************)
(* aes.h: the ECB loops under "#pragma omp parallel for".  Every iteration *)
(* of the loop may be in flight at once; an iteration makes the calls of   *)
(* do_encrypt (do_decrypt) one after the other on its span of the shared   *)
(* buffer, and the calls of different iterations interleave in any order.  *)
(***************************************************************************)
\* number of calls do_encrypt and do_decrypt make on a block
round_calls(sz) == 4 * NR(sz)

\* call p (from 0) of do_encrypt, on the block as the calls before it left it
do_encrypt_call(sz, ek, blk, p) ==
    IF p = 0 THEN add_round_key(ek, blk, 0)
    ELSE LET i == ((p - 1) \div 4) + 1
             q == (p - 1) % 4
         IN  IF q = 0 THEN sub_bytes(blk)
             ELSE IF q = 1 THEN shift_rows(blk)
             ELSE IF i < NR(sz)
             THEN (IF q = 2 THEN mix_columns(blk)
                   ELSE add_round_key(ek, blk, i * (NB * 4)))
             ELSE add_round_key(ek, blk, NR(sz) * (NB * 4))

\* call p (from 0) of do_decrypt
do_decrypt_call(sz, ek, blk, p) ==
    IF p = 0 THEN add_round_key(ek, blk, NR(sz) * (NB * 4))
    ELSE LET i == NR(sz) - 1 - ((p - 1) \div 4)
             q == (p - 1) % 4
         IN  IF q = 0 THEN inv_shift_rows(blk)
             ELSE IF q = 1 THEN inv_sub_bytes(blk)
             ELSE IF i > 0
             THEN (IF q = 2 THEN add_round_key(ek, blk, i * (NB * 4))
                   ELSE inv_mix_columns(blk))
             ELSE add_round_key(ek, blk, 0)

\* data_view.subspan(i * 16) with its first element at the half block
ecb_span_half(i) == i * 8

\* data_view.subspan(i * 16): the C++ index of the span's first element
ecb_span(i) == i * 16

\* .first<16>() of the span at off: the 16 bytes a call reads
span_first(buf, off) == SubSeq(buf, off + 1, off + 16)

\* the 16 bytes a call writes through the span at off
span_store(buf, off, blk) ==
    Arr([k \in 1..Len(buf) |-> IF k > off /\ k <= off + 16 THEN blk[k - off] ELSE buf[k]])

\* most blocks in a buffer given to the parallel loop
EcbBlocks == 2

EcbSizes == {128, 256}

EcbDirs == {"encrypt", "decrypt"}

\* buffers that pass the loop's assert: 32 bytes or more, whole blocks; the
\* longer ones and the one with equal blocks are tried with AES-128
EcbBuffers(sz) ==
    IF sz = 128
    THEN {Ramp(16 * n) : n \in 2..EcbBlocks} \cup {Const(32, 0)}
    ELSE {Ramp(32)}

\* an instance is built and ecb::encrypt or ecb::decrypt enters its loop
EcbInit ==
    /\ pc = "ecb"
    /\ size \in EcbSizes /\ mode = "ecb" /\ padding = "pkcs7"
    /\ key = FipsKey(NK(size) * 4) /\ expanded_key = expand_key(size, key)
    /\ plain = <<>> /\ padded = <<>> /\ iv = <<>> /\ cipher = <<>>
    /\ input = <<>> /\ raw = <<>> /\ strip = 0 /\ result = <<>>
    /\ oob = FALSE /\ fault = "none"
    /\ test = NoTest
    /\ ecb_dir \in EcbDirs
    /\ ecb_in \in EcbBuffers(size)
    /\ ecb_data = ecb_in
    /\ ecb_at = [i \in 0..((Len(ecb_in) \div 16) - 1) |-> 0]
    /\ call = NoCall

\* iteration i makes its next call on its span
EcbStep(i) ==
    /\ pc = "ecb"
    /\ ecb_at[i] < round_calls(size)
    /\ \E blk \in {span_first(ecb_data, ecb_span(i))} :
           ecb_data' = span_store(ecb_data, ecb_span(i),
                                  IF ecb_dir = "encrypt"
                                  THEN do_encrypt_call(size, expanded_key, blk, ecb_at[i])
                                  ELSE do_decrypt_call(size, expanded_key, blk, ecb_at[i]))
    /\ ecb_at' = [ecb_at EXCEPT ![i] = @ + 1]
    /\ UNCHANGED <<session_vars, ecb_dir, ecb_in, call>>

\* the implicit barrier at the end of the parallel loop
EcbJoin ==
    /\ pc = "ecb"
    /\ \A i \in DOMAIN ecb_at : ecb_at[i] = round_calls(size)
    /\ pc' = "ecb_done"
    /\ UNCHANGED <<size, mode, padding, key, expanded_key, plain, padded, iv, cipher,
                   input, raw, strip, result, oob, fault, test, ecb_vars, call>>

DoEcbStep == \E i \in DOMAIN ecb_at : EcbStep(i)

EcbNext == DoEcbStep \/ EcbJoin

EcbSpec == EcbInit /\ [][EcbNext]_vars

(***************************************************************************)
(* Calls of the table and round functions on their own: the multipliers,   *)
(* the substitution tables, MixColumns and its inverse, and the indices    *)
(* the rounds and the key expansion use.                                   *)
(***************************************************************************)
\* using aes_rcon = std::array<uint8_t, 14>
rcon_size == 14

\* std::array<uint8_t, 510> anti_log
anti_log_size == 510

\* the key_pos argument of round r with twice the stride
round_key_pos_wide(r) == r * (NB * 8)

\* the key_pos argument do_encrypt and do_decrypt pass for round r:
\* 0, i * (NB * 4) for 1 <= i < NR, NR * (NB * 4)
round_key_pos(r) == r * (NB * 4)

\* the values i takes in the loop of expand_key when i % NK == 0
rcon_uses(sz) == {i \in NK(sz)..(NB * (NR(sz) + 1) - 1) : i % NK(sz) = 0}

\* 16-byte states: one non-zero byte at every place, and mixed ones
MixStates ==
    {Arr([i \in 1..16 |-> IF i = k THEN v ELSE 0]) : k \in 1..16, v \in Byte}
    \cup {Arr([i \in 1..16 |-> U8(d * i + 3 * i * i)]) : d \in Byte}
    \cup {Ramp(16), Fips128, Fips194, Fips256}

FnInit ==
    /\ pc = "fn"
    /\ size = 0 /\ mode = "none" /\ padding = "none"
    /\ key = <<>> /\ expanded_key = <<>>
    /\ plain = <<>> /\ padded = <<>> /\ iv = <<>> /\ cipher = <<>>
    /\ input = <<>> /\ raw = <<>> /\ strip = 0 /\ result = <<>>
    /\ oob = FALSE /\ fault = "none"
    /\ test = NoTest
    /\ ecb_dir = "none" /\ ecb_in = <<>> /\ ecb_data = <<>> /\ ecb_at = <<>>
    /\ call = NoCall

\* fast_mult(a, b) and mult(a, b); index is the anti_log index fast_mult
\* uses, -1 when it returns before the lookup
CallMult(a, b) ==
    /\ call = NoCall
    /\ call' = [fn    |-> "mult", a |-> a, b |-> b,
                fast  |-> fast_mult(a, b),
                ref   |-> mult(a, b),
                index |-> IF a = 0 \/ b = 0 THEN -1
                          ELSE LOG_TABLES.log[a] + LOG_TABLES.log[b]]
    /\ UNCHANGED <<session_vars, ecb_vars>>

\* sub_tables.sbox[x] and sub_tables.inv_sbox of it
CallSbox(x) ==
    /\ call = NoCall
    /\ call' = [fn   |-> "sbox", x |-> x,
                s    |-> sub_tables.sbox[x],
                back |-> sub_tables.inv_sbox[sub_tables.sbox[x]]]
    /\ UNCHANGED <<session_vars, ecb_vars>>

\* mix_columns(s), then inv_mix_columns on the result
CallMix(s) ==
    /\ call = NoCall
    /\ \E m \in {mix_columns(s)} :
           call' = [fn |-> "mix_columns", s |-> s, mixed |-> m,
                    back |-> inv_mix_columns(m)]
    /\ UNCHANGED <<session_vars, ecb_vars>>

\* add_round_key(data, key_pos) for round r of an instance of size sz:
\* key_pos is converted to the uint8_t parameter, and the loop reads
\* expanded_key[key_pos + i] for i < NB * 4
CallRoundKey(sz, r) ==
    /\ call = NoCall
    /\ call' = [fn |-> "add_round_key", size |-> sz, r |-> r,
                arg     |-> round_key_pos(r),
                key_pos |-> U8(round_key_pos(r)),
                last    |-> U8(round_key_pos(r)) + (NB * 4 - 1),
                len     |-> expanded_key_size(sz)]
    /\ UNCHANGED <<session_vars, ecb_vars>>

\* this->rcon[(i / NK) - 1] in expand_key
CallRcon(sz, i) ==
    /\ call = NoCall
    /\ call' = [fn |-> "rcon", size |-> sz, i |-> i,
                index |-> (i \div NK(sz)) - 1,
                len   |-> rcon_size]
    /\ UNCHANGED <<session_vars, ecb_vars>>

\* the call has returned
Return ==
    /\ call # NoCall
    /\ call' = NoCall
    /\ UNCHANGED <<session_vars, ecb_vars>>

\* a call is made when none is in progress
DoCallMult == call = NoCall /\ \E a \in Byte, b \in Byte : CallMult(a, b)

DoCallSbox == call = NoCall /\ \E x \in Byte : CallSbox(x)

DoCallMix == call = NoCall /\ \E s \in MixStates : CallMix(s)

DoCallRoundKey ==
    /\ call = NoCall
    /\ \E sz \in {z \in RequestedSizes : size_accepted(z)} :
           \E r \in 0..NR(sz) : CallRoundKey(sz, r)

DoCallRcon ==
    /\ call = NoCall
    /\ \E sz \in {z \in RequestedSizes : size_accepted(z)} :
           \E i \in rcon_uses(sz) : CallRcon(sz, i)

FnNext == DoCallMult \/ DoCallSbox \/ DoCallMix \/ DoCallRoundKey \/ DoCallRcon \/ Return

FnSpec == FnInit /\ [][FnNext]_vars

(***************************************************************************)
(* Properties.                                                             *)
(***************************************************************************)
\* the decrypt call was given the whole ciphertext of the encrypt call
Honest == pc = "decrypted" /\ input = cipher

FipsCipher(sz) == IF sz = 128 THEN Fips128 ELSE IF sz = 256 THEN Fips256 ELSE Fips194

\* C1: decrypt(encrypt(x)) has the length of x and every byte of x, for every
\* accepted key size, both modes (any IV), both paddings, every x of
\* length >= 1; the decrypt call ends normally and reads inside its buffer.
C1_RoundTrip ==
    (Honest /\ Len(plain) >= 1)
        => /\ fault = "none"
           /\ ~oob
           /\ Len(result) = Len(plain)
           /\ \A i \in 1..Len(plain) : result[i] = plain[i]

C1_Witness ==
    /\ Honest /\ size = 256 /\ mode = "cbc" /\ padding = "pkcs7"
    /\ Len(plain) = 17 /\ iv # Const(16, 0)
    /\ result = plain

\* C2: with the FIPS-197 keys 00 01 .. (16, 24 and 32 bytes) the block
\* 00 11 .. FF encrypts to the three known answers, and these are the first
\* 16 bytes of the ECB ciphertext of that plaintext.
C2_KnownAnswers ==
    (pc = "encrypted" /\ mode = "ecb" /\ key = FipsKey(NK(size) * 4) /\ plain = Ramp(16))
        => /\ fault = "none"
           /\ SubSeq(cipher, 1, 16) = FipsCipher(size)
           /\ do_encrypt(size, expand_key(size, key), plain) = FipsCipher(size)

C2_Witness ==
    /\ pc = "encrypted" /\ mode = "ecb" /\ size = 194
    /\ key = FipsKey(24) /\ plain = Ramp(16)
    /\ SubSeq(cipher, 1, 16) = Fips194

\* number of bytes encrypt appended to the plaintext
Appended == Len(padded) - Len(plain)

\* C3 (as amended): encrypt appends between 16 and 31 padding bytes, so that
\* the padded length is the smallest multiple of 16 that is at least the
\* plaintext length plus 16; the plaintext is kept in front, and under
\* PKCS#7 every appended byte equals the number of bytes appended.
C3_PadLength ==
    pc = "encrypted"
        => /\ Appended \in 16..31
           /\ Len(padded) % 16 = 0
           /\ Len(padded) >= Len(plain) + 16
           /\ Len(padded) - 16 < Len(plain) + 16
           /\ SubSeq(padded, 1, Len(plain)) = plain
           /\ padding = "pkcs7"
                => \A i \in (Len(plain) + 1)..Len(padded) : padded[i] = Appended

\* C3 as stated: between 1 and 16 bytes, the padded length the smallest
\* multiple of 16 strictly greater than the plaintext length.
C3_Original ==
    pc = "encrypted"
        => /\ Appended \in 1..16
           /\ Len(padded) % 16 = 0
           /\ Len(padded) > Len(plain)
           /\ Len(padded) - 16 <= Len(plain)
           /\ padding = "pkcs7"
                => \A i \in (Len(plain) + 1)..Len(padded) : padded[i] = Appended

C3_Witness ==
    /\ pc = "encrypted" /\ padding = "pkcs7" /\ plain = Hello
    /\ Len(padded) = 32 /\ padded[14] = 19 /\ padded[32] = 19

\* C4 (as amended): under AES-128 CBC, encrypt of a 13-byte plaintext returns
\* exactly 48 bytes: two 16-byte padded ciphertext blocks followed by the
\* 16-byte IV.
C4_CbcLength ==
    (pc = "encrypted" /\ size = 128 /\ mode = "cbc" /\ Len(plain) = 13)
        => /\ fault = "none"
           /\ Len(padded) = 32
           /\ Len(cipher) = 48
           /\ SubSeq(cipher, 33, 48) = iv

\* C4 as stated: 32 bytes, one padded block and the IV.
C4_Original ==
    (pc = "encrypted" /\ size = 128 /\ mode = "cbc" /\ Len(plain) = 13)
        => /\ Len(cipher) = 32
           /\ SubSeq(cipher, 17, 32) = iv

C4_Witness ==
    /\ pc = "encrypted" /\ size = 128 /\ mode = "cbc" /\ plain = Hello
    /\ key = OtherKey(16) /\ iv # Const(16, 0)
    /\ Len(cipher) = 48

\* C5 as stated: for both schemes and every n in 1..16, detect on a
\* zero-prefixed block padded with apply(n) returns n, ends normally and
\* reads inside the block.
C5_PadRoundTrip ==
    (pc = "padtest" /\ test.fill = 0 /\ test.j = -1)
        => /\ test.ret = test.n
           /\ ~test.oob
           /\ ~test.crash

\* the final byte of the tested block
TestN == test.block[TestBlockLen]

\* the byte a valid run holds before its final byte
TestExpect == IF test.scheme = "pkcs7" THEN TestN ELSE 0

\* positions of the N - 1 bytes before the final byte
TestRun == (TestBlockLen - TestN + 1)..(TestBlockLen - 1)

\* C6 as stated: with N the final byte, detect returns 0 if any one of the
\* N - 1 bytes before the final byte differs from N (PKCS#7) or from zero
\* (ANSI X.923), the first byte of the run included.
C6_WholeRunValidated ==
    (/\ pc = "padtest"
     /\ TestN \in 1..TestBlockLen
     /\ \E k \in TestRun : test.block[k] # TestExpect)
        => test.ret = 0

\* C7: when detect returns 0, decrypt removes nothing: the returned buffer
\* is the mode-decrypted buffer, at its full length and unchanged.
C7_BadPaddingKeepsAll ==
    (pc = "decrypted" /\ fault = "none" /\ strip = 0)
        => /\ Len(result) = Len(input) - (IF mode = "cbc" THEN 16 ELSE 0)
           /\ Len(result) = Len(raw)
           /\ \A i \in 1..Len(raw) : result[i] = raw[i]

C7_Witness ==
    /\ pc = "decrypted" /\ fault = "none" /\ strip = 0 /\ ~oob
    /\ mode = "ecb" /\ padding = "pkcs7"
    /\ Len(raw) = 32 /\ raw[32] = 4 /\ result = raw

\* C8 as stated: decrypt does not process a ciphertext whose length is not a
\* positive multiple of 16, or is below 32 bytes under ECB, or below 48
\* bytes under CBC.
C8_LengthRejected ==
    (/\ pc = "decrypted"
     /\ \/ Len(input) % 16 # 0
        \/ Len(input) = 0
        \/ mode = "ecb" /\ Len(input) < 32
        \/ mode = "cbc" /\ Len(input) < 48)
        => fault = "assert" /\ raw = <<>> /\ result = <<>>

\* C9 as stated: an instance is constructed exactly for the sizes 128, 192,
\* 256 and the alias 194, with Nk = 4, 6, 8 and Nr = 10, 12, 14.
C9_KeySizes ==
    pc \in {"built", "rejected"}
        => /\ pc = "built" <=> size \in {128, 192, 194, 256}
           /\ pc = "built"
                => /\ NK(size) = (IF size = 128 THEN 4 ELSE IF size = 256 THEN 8 ELSE 6)
                   /\ NR(size) = (IF size = 128 THEN 10 ELSE IF size = 256 THEN 14 ELSE 12)

\* block i (from 0) of a buffer
Block(buf, i) == SubSeq(buf, 16 * i + 1, 16 * i + 16)

\* C10: CBC encrypt returns C_0 .. C_{n-1} and a 16-byte trailer, with
\* C_0 = Encrypt(P_0 XOR IV), C_i = Encrypt(P_i XOR C_{i-1}), the trailer the
\* drawn IV, and 16 * n + 16 bytes in all.
C10_CbcChaining ==
    (pc = "encrypted" /\ mode = "cbc" /\ fault = "none")
        => LET n == Len(padded) \div 16
           IN  /\ Len(cipher) = 16 * n + 16
               /\ Block(cipher, n) = iv
               /\ \A i \in 0..(n - 1) :
                      Block(cipher, i) =
                          do_encrypt(size, expanded_key,
                                     xor_block(Block(padded, i),
                                               IF i = 0 THEN iv ELSE Block(cipher, i - 1)))

C10_Witness ==
    /\ pc = "encrypted" /\ mode = "cbc" /\ fault = "none"
    /\ Len(padded) = 48 /\ Len(cipher) = 64
    /\ iv # Const(16, 0)
    /\ Block(cipher, 3) = iv /\ Block(cipher, 3) # Block(cipher, 2)

\* what the sequential loop makes of the buffer
EcbSequential ==
    IF ecb_dir = "encrypt" THEN ecb_encrypt(size, expanded_key, ecb_in)
    ELSE ecb_decrypt(size, expanded_key, ecb_in)

\* C11: in whatever order the calls of the parallel ECB iterations
\* interleave, a call changes no byte outside the block of its iteration, a
\* block not yet started holds its input, a finished block holds the
\* encryption (decryption) of block i of the input, and after the loop the
\* buffer equals the result of the sequential loop.
C11_EcbParallel ==
    /\ [](\A i \in DOMAIN ecb_at :
            /\ ecb_at[i] = 0 => block_at(ecb_data, i) = block_at(ecb_in, i)
            /\ ecb_at[i] = round_calls(size)
                 => block_at(ecb_data, i) = block_at(EcbSequential, i))
    /\ [](pc = "ecb_done" => ecb_data = EcbSequential)
    /\ [][\A i \in DOMAIN ecb_at :
            ecb_at'[i] = ecb_at[i] => block_at(ecb_data', i) = block_at(ecb_data, i)]_vars

C11_Witness ==
    /\ pc = "ecb_done" /\ ecb_dir = "encrypt" /\ size = 128
    /\ ecb_in = Ramp(32)
    /\ block_at(ecb_data, 0) = Fips128
    /\ ecb_data = EcbSequential

\* an instance exists and its constructor has returned
Constructed == pc \in {"built", "encrypted", "decrypted"}

\* C12: after construction the expanded key has 16 * (Nr + 1) bytes (176
\* for a 128-bit key) and starts with the 4 * Nk bytes of the key, and no
\* encrypt or decrypt call, in either mode, changes a byte of it.
C12_ExpandedKey ==
    /\ [](Constructed
            => /\ Len(expanded_key) = 16 * (NR(size) + 1)
               /\ size = 128 => Len(expanded_key) = 176
               /\ Len(key) = 4 * NK(size)
               /\ SubSeq(expanded_key, 1, 4 * NK(size)) = key)
    /\ [][(Constructed /\ pc' \in {"encrypted", "decrypted"})
            => expanded_key' = expanded_key]_vars

C12_Witness ==
    /\ pc = "decrypted" /\ fault = "none" /\ mode = "cbc" /\ size = 128
    /\ key = OtherKey(16)
    /\ Len(expanded_key) = 176
    /\ SubSeq(expanded_key, 1, 16) = key
    /\ SubSeq(expanded_key, 161, 176) # Const(16, 0)

\* the bytes of buf from the C++ index pos on are what apply(pad_size) writes
\* under the scheme: pad_size - 1 zeros and the byte pad_size (ANSI X.923),
\* or pad_size bytes equal to pad_size (PKCS#7)
PaddingWritten(scheme, buf, pos, pad_size) ==
    /\ Len(buf) = pos + pad_size
    /\ buf[pos + pad_size] = pad_size
    /\ \A k \in (pos + 1)..(pos + pad_size - 1) :
           buf[k] = (IF scheme = "pkcs7" THEN pad_size ELSE 0)

\* C13: apply writes exactly pad_size bytes from the given position and
\* leaves every byte before it unchanged, for every pad_size encrypt passes
\* (16..31) and for the pad sizes 1..16 of the padding tests.
C13_ApplyFrame ==
    /\ pc = "encrypted"
         => /\ Appended = encrypt_pad_size(Len(plain))
            /\ SubSeq(padded, 1, Len(plain)) = plain
            /\ PaddingWritten(padding, padded, Len(plain), Appended)
    /\ pc = "padtest"
         => /\ SubSeq(test.applied, 1, TestBlockLen - test.n)
                  = Const(TestBlockLen - test.n, test.fill)
            /\ PaddingWritten(test.scheme, test.applied, TestBlockLen - test.n, test.n)

C13_Witness ==
    /\ pc = "encrypted" /\ padding = "ansix923" /\ plain = Hello
    /\ Len(padded) = 32 /\ padded[13] = 33 /\ padded[14] = 0 /\ padded[31] = 0
    /\ padded[32] = 19

\* C14: fast_mult(a, b) = mult(a, b) for all bytes a and b, and the index
\* log[a] + log[b] fast_mult looks up lies inside the 510-entry table.
C14_FastMultAgrees ==
    call.fn = "mult"
        => /\ call.fast = call.ref
           /\ call.index < anti_log_size
           /\ (call.a # 0 /\ call.b # 0) => call.index \in 0..(anti_log_size - 1)

C14_Witness ==
    /\ call.fn = "mult" /\ call.a = 87 /\ call.b = 131
    /\ call.fast = 193 /\ call.ref = 193

\* C15: inv_sbox[sbox[x]] = x for every byte x.
C15_SboxInverse ==
    call.fn = "sbox" => call.back = call.x

C15_Witness ==
    /\ call.fn = "sbox" /\ call.x = 83 /\ call.s = 237 /\ call.back = 83

\* column c (from 0) of a state
Column(s, c) == SubSeq(s, 4 * c + 1, 4 * c + 4)

\* the state with every column but column c set to zero
OnlyColumn(s, c) ==
    Arr([i \in 1..16 |-> IF (i - 1) \div 4 = c THEN s[i] ELSE 0])

\* C16: inv_mix_columns(mix_columns(s)) = s, and column c of mix_columns(s)
\* is decided by column c of s alone.
C16_MixInverse ==
    call.fn = "mix_columns"
        => /\ call.back = call.s
           /\ \A c \in 0..3 :
                  Column(call.mixed, c) = Column(mix_columns(OnlyColumn(call.s, c)), c)

C16_Witness ==
    /\ call.fn = "mix_columns" /\ call.s = Fips128
    /\ call.mixed # call.s /\ call.back = Fips128

\* C17 as stated: for every plaintext length, the empty plaintext included,
\* the buffer encrypt hands to the mode is a multiple of 16 and at least 32
\* bytes long, so the mode's assertion does not fail.
C17_EncryptMeetsAssert ==
    pc = "encrypted"
        => /\ Len(padded) % 16 = 0
           /\ Len(padded) >= 32
           /\ fault = "none"

\* C18 as stated: for every buffer that passes the mode's length assertion,
\* whatever it decrypts to, padding detection ends normally, reads only
\* inside the decrypted buffer and reports no more bytes than the buffer
\* holds.
C18_DetectStaysInside ==
    (pc = "decrypted" /\ fault # "assert")
        => /\ ~oob
           /\ fault = "none"
           /\ strip <= Len(raw)

\* C19: for every accepted key size and every round r in 0..Nr, the offset
\* r * 16 reaches add_round_key's 8-bit parameter unchanged and
\* r * 16 + 15 is below the expanded key's length 16 * (Nr + 1); every index
\* (i / Nk) - 1 expand_key uses lies in the 14-entry rcon table.
C19_RoundKeyAddressing ==
    /\ call.fn = "add_round_key"
         => /\ call.arg = 16 * call.r
            /\ call.key_pos = call.arg
            /\ call.last = 16 * call.r + 15
            /\ call.last < call.len
            /\ call.len = 16 * (NR(call.size) + 1)
    /\ call.fn = "rcon"
         => call.index \in 0..(call.len - 1)

C19_Witness ==
    /\ call.fn = "add_round_key" /\ call.size = 256 /\ call.r = 14
    /\ call.key_pos = 224 /\ call.last = 239 /\ call.len = 240

====
